---------------------------- MODULE Spec2Model ----------------------------
(***************************************************************************)
(* A model of EmailReceiver.getVerificationCode (src/src/emailReceiver.js): *)
(* one retrieval session over an IMAP connection.  The program state is the *)
(* closure of getVerificationCode (isResolved, currentBox, junkBoxChecked,  *)
(* processedEmails, checkInterval), the promise handed to the caller, the   *)
(* connection object (imap.state, its events) and the asynchronous store    *)
(* operations in flight.  Texts are sequences of one-character strings.     *)
(***************************************************************************)
EXTENDS Integers, Sequences, FiniteSets, TLC

(***************************************************************************)
(* Texts                                                                   *)
(***************************************************************************)

\* The two characters of the source's patterns that are not ASCII.
FWColon == "FWCOLON"
IdeoSpace == "IDEOSPACE"

UpperChars == <<"A","B","C","D","E","F","G","H","I","J","K","L","M",
                "N","O","P","Q","R","S","T","U","V","W","X","Y","Z">>
LowerChars == <<"a","b","c","d","e","f","g","h","i","j","k","l","m",
                "n","o","p","q","r","s","t","u","v","w","x","y","z">>

Digit == {"0","1","2","3","4","5","6","7","8","9"}
LowerSet == {LowerChars[i] : i \in 1..26}
UpperSet == {UpperChars[i] : i \in 1..26}
\* \s of a JavaScript regular expression, as far as the model's texts go.
Space == {" ", "\n", "\t", IdeoSpace}

LowerChar(c) ==
    IF c \in UpperSet
    THEN LowerChars[CHOOSE i \in 1..26 : UpperChars[i] = c]
    ELSE c

\* String.prototype.toLowerCase
ToLowerCase(t) == [i \in 1..Len(t) |-> LowerChar(t[i])]

IsAt(p, t, i) ==
    /\ i + Len(p) - 1 <= Len(t)
    /\ \A k \in 1..Len(p) : t[i + k - 1] = p[k]

\* String.prototype.includes
Includes(t, p) == \E i \in 1..(Len(t) + 1) : IsAt(p, t, i)

\* String.prototype.indexOf, 0 when absent (positions count from 1)
IndexOf(t, p, from) ==
    IF \E i \in from..(Len(t) + 1) : IsAt(p, t, i)
    THEN CHOOSE i \in from..(Len(t) + 1) :
            IsAt(p, t, i) /\ \A j \in from..(i - 1) : ~IsAt(p, t, j)
    ELSE 0

\* targetEmail.split('@')[0]
RECURSIVE BeforeAt(_)
BeforeAt(t) ==
    IF t = <<>> \/ Head(t) = "@" THEN <<>> ELSE <<Head(t)>> \o BeforeAt(Tail(t))

(***************************************************************************)
(* Regular expressions: a pattern is a sequence of elements, matched with  *)
(* JavaScript's backtracking order (leftmost start, greedy quantifiers,    *)
(* alternatives left to right).  Under the i flag a character is compared  *)
(* in lower case, the pattern's letters being written in lower case.       *)
(***************************************************************************)

NoMatch == [ok |-> FALSE, cap |-> <<>>]

\* a character class with a greedy quantifier {min,max}
Cls(S, neg, min, max) ==
    [k |-> "cls", set |-> S, neg |-> neg, min |-> min, max |-> max, sub |-> <<>>]
\* the capture group: exactly n characters of a class
Cap(S, n) ==
    [k |-> "cap", set |-> S, neg |-> FALSE, min |-> n, max |-> n, sub |-> <<>>]
\* (?:sub)?
Opt(sub) ==
    [k |-> "opt", set |-> {}, neg |-> FALSE, min |-> 0, max |-> 1, sub |-> sub]
\* (?:^|[S])
BolOr(S, neg) ==
    [k |-> "bolor", set |-> S, neg |-> neg, min |-> 0, max |-> 0, sub |-> <<>>]
\* (?:[S]|$)
OrEol(S, neg) ==
    [k |-> "oreol", set |-> S, neg |-> neg, min |-> 0, max |-> 0, sub |-> <<>>]
\* (?![S])
NotAhead(S) ==
    [k |-> "nla", set |-> S, neg |-> FALSE, min |-> 0, max |-> 0, sub |-> <<>>]

\* max of a quantifier without an upper limit
Unbounded == -1

\* a literal word
Lit(w) == [i \in 1..Len(w) |-> Cls({w[i]}, FALSE, 1, 1)]
Star(S) == <<Cls(S, FALSE, 0, Unbounded)>>
Plus(S) == <<Cls(S, FALSE, 1, Unbounded)>>
NotStar(S) == <<Cls(S, TRUE, 0, Unbounded)>>

InCls(e, c, ci) == ((IF ci THEN LowerChar(c) ELSE c) \in e.set) # e.neg

\* the length of the run of characters of e's class at position i, at most e.max
RECURSIVE RunLen(_, _, _, _, _)
RunLen(e, t, i, ci, n) ==
    IF (e.max = Unbounded \/ n < e.max) /\ i + n <= Len(t) /\ InCls(e, t[i + n], ci)
    THEN RunLen(e, t, i, ci, n + 1)
    ELSE n

RECURSIVE MatchHere(_, _, _, _, _)
RECURSIVE TryRun(_, _, _, _, _, _, _)

\* elems matched at position i of t; cap is the capture so far
MatchHere(elems, t, i, ci, cap) ==
    IF elems = <<>> THEN [ok |-> TRUE, cap |-> cap]
    ELSE
      LET e == Head(elems)
          rest == Tail(elems)
      IN CASE e.k = "cls" ->
                LET n == RunLen(e, t, i, ci, 0)
                IN IF n < e.min THEN NoMatch
                   ELSE TryRun(e, rest, t, i, ci, cap, n)
           [] e.k = "cap" ->
                IF RunLen(e, t, i, ci, 0) = e.min
                THEN MatchHere(rest, t, i + e.min, ci, SubSeq(t, i, i + e.min - 1))
                ELSE NoMatch
           [] e.k = "opt" ->
                LET taken == MatchHere(e.sub \o rest, t, i, ci, cap)
                IN IF taken.ok THEN taken ELSE MatchHere(rest, t, i, ci, cap)
           [] e.k = "bolor" ->
                LET bol == IF i = 1 THEN MatchHere(rest, t, i, ci, cap) ELSE NoMatch
                IN IF bol.ok THEN bol
                   ELSE IF i <= Len(t) /\ InCls(e, t[i], ci)
                        THEN MatchHere(rest, t, i + 1, ci, cap)
                        ELSE NoMatch
           [] e.k = "oreol" ->
                LET one == IF i <= Len(t) /\ InCls(e, t[i], ci)
                           THEN MatchHere(rest, t, i + 1, ci, cap)
                           ELSE NoMatch
                IN IF one.ok THEN one
                   ELSE IF i = Len(t) + 1 THEN MatchHere(rest, t, i, ci, cap)
                        ELSE NoMatch
           [] e.k = "nla" ->
                IF i <= Len(t) /\ InCls(e, t[i], ci) THEN NoMatch
                ELSE MatchHere(rest, t, i, ci, cap)

\* the greedy quantifier: n repetitions first, then fewer, down to e.min
TryRun(e, rest, t, i, ci, cap, n) ==
    IF n < e.min THEN NoMatch
    ELSE LET r == MatchHere(rest, t, i + n, ci, cap)
         IN IF r.ok THEN r ELSE TryRun(e, rest, t, i, ci, cap, n - 1)

RECURSIVE MatchFrom(_, _, _, _)
MatchFrom(p, t, i, ci) ==
    IF i > Len(t) + 1 THEN NoMatch
    ELSE LET r == MatchHere(p, t, i, ci, <<>>)
         IN IF r.ok THEN r ELSE MatchFrom(p, t, i + 1, ci)

\* String.prototype.match(pattern): the first match's capture group
Match(t, p, ci) == MatchFrom(p, t, 1, ci)

(***************************************************************************)
(* The patterns of processEmail, in the source's order                      *)
(***************************************************************************)

\* the characters of the Chinese labels
ZhYan == "ZH_YAN"
ZhZheng == "ZH_ZHENG"
ZhDai == "ZH_DAI"
ZhMa == "ZH_MA"

\* [A-Z0-9] under the i flag
AlNum == LowerSet \cup Digit
\* the separators between a label and its code
Sep == {FWColon, ":"} \cup Space
CodeLen == 6

W_following == <<"f","o","l","l","o","w","i","n","g">>
W_digit == <<"d","i","g","i","t">>
W_code == <<"c","o","d","e">>
W_enter == <<"e","n","t","e","r">>
W_the == <<"t","h","e">>
W_verification == <<"v","e","r","i","f","i","c","a","t","i","o","n">>
W_verify == <<"v","e","r","i","f","y">>
W_is == <<"i","s">>
W_your == <<"y","o","u","r">>

\* /following\s+6\s*-?\s*digit\s+code[^\d]*(\d{6})/i
Pattern1 ==
    Lit(W_following) \o Plus(Space) \o Lit(<<"6">>) \o Star(Space)
      \o <<Cls({"-"}, FALSE, 0, 1)>> \o Star(Space) \o Lit(W_digit)
      \o Plus(Space) \o Lit(W_code) \o NotStar(Digit) \o <<Cap(Digit, CodeLen)>>
\* /enter\s+(?:the\s+)?following[^\d]*(\d{6})/i
Pattern2 ==
    Lit(W_enter) \o Plus(Space) \o <<Opt(Lit(W_the) \o Plus(Space))>>
      \o Lit(W_following) \o NotStar(Digit) \o <<Cap(Digit, CodeLen)>>
\* /verification\s*code[：:\s]*([A-Z0-9]{6})/i
Pattern3 ==
    Lit(W_verification) \o Star(Space) \o Lit(W_code) \o Star(Sep)
      \o <<Cap(AlNum, CodeLen)>>
\* /verify\s*code[：:\s]*([A-Z0-9]{6})/i
Pattern4 ==
    Lit(W_verify) \o Star(Space) \o Lit(W_code) \o Star(Sep)
      \o <<Cap(AlNum, CodeLen)>>
\* /code\s*(?:is)?[：:\s]+([A-Z0-9]{6})/i
Pattern5 ==
    Lit(W_code) \o Star(Space) \o <<Opt(Lit(W_is))>> \o Plus(Sep)
      \o <<Cap(AlNum, CodeLen)>>
\* /your\s*code[：:\s]*([A-Z0-9]{6})/i
Pattern6 ==
    Lit(W_your) \o Star(Space) \o Lit(W_code) \o Star(Sep)
      \o <<Cap(AlNum, CodeLen)>>
\* /验证码[：:\s\u3000]*([A-Z0-9]{6})/i
Pattern7 ==
    Lit(<<ZhYan, ZhZheng, ZhMa>>) \o Star(Sep) \o <<Cap(AlNum, CodeLen)>>
\* /验证代码[：:\s\u3000]*([A-Z0-9]{6})/i
Pattern8 ==
    Lit(<<ZhYan, ZhZheng, ZhDai, ZhMa>>) \o Star(Sep) \o <<Cap(AlNum, CodeLen)>>
\* /code[：:\s]*([A-Z0-9]{6})(?![0-9])/i
Pattern9 ==
    Lit(W_code) \o Star(Sep) \o <<Cap(AlNum, CodeLen), NotAhead(Digit)>>
\* /(?:^|[^0-9])([0-9]{6})(?:[^0-9]|$)/
Pattern10 ==
    <<BolOr(Digit, TRUE), Cap(Digit, CodeLen), OrEol(Digit, TRUE)>>

\* the patterns array with the bare run of six digits tried first
patterns_BareFirst ==
    << <<Pattern10, FALSE>>, <<Pattern1, TRUE>>, <<Pattern2, TRUE>>,
       <<Pattern3, TRUE>>, <<Pattern4, TRUE>>, <<Pattern5, TRUE>>,
       <<Pattern6, TRUE>>, <<Pattern7, TRUE>>, <<Pattern8, TRUE>>,
       <<Pattern9, TRUE>> >>

\* the patterns array: <<elements, i flag>>
patterns ==
    << <<Pattern1, TRUE>>, <<Pattern2, TRUE>>, <<Pattern3, TRUE>>,
       <<Pattern4, TRUE>>, <<Pattern5, TRUE>>, <<Pattern6, TRUE>>,
       <<Pattern7, TRUE>>, <<Pattern8, TRUE>>, <<Pattern9, TRUE>>,
       <<Pattern10, FALSE>> >>

\* for (const pattern of patterns) { const match = text.match(pattern); ... }
RECURSIVE FirstPattern(_, _)
FirstPattern(t, k) ==
    IF k > Len(patterns) THEN NoMatch
    ELSE LET r == Match(t, patterns[k][1], patterns[k][2])
         IN IF r.ok THEN r ELSE FirstPattern(t, k + 1)

ExtractCode(t) == FirstPattern(t, 1)

\* subject.match(/(?:^|[\s\-:])([0-9]{6})(?:[\s\-]|$)/)
SubjectPattern ==
    <<BolOr(Space \cup {"-", ":"}, FALSE), Cap(Digit, CodeLen),
      OrEol(Space \cup {"-"}, FALSE)>>

SubjectMatch(subject) == Match(subject, SubjectPattern, FALSE)

(***************************************************************************)
(* The clean-up of an HTML body (processEmail, cleanHtml)                   *)
(***************************************************************************)

\* the line terminators, which "." does not match
LineEnd == {"\n"}

\* the position of the first ">" at or after i, 0 when there is none
FirstGt(t, i) == IndexOf(t, <<">">>, i)

\* the length of the match of /<tag[^>]*>.*?<\/tag>/i at position i, 0 for none
BlockLen(t, i, tag) ==
    LET open == <<"<">> \o tag
        close == <<"<", "/">> \o tag \o <<">">>
        low == ToLowerCase(t)
    IN IF ~IsAt(open, low, i) THEN 0
       ELSE LET gt == FirstGt(t, i + Len(open))
            IN IF gt = 0 THEN 0
               ELSE LET k == IndexOf(low, close, gt + 1)
                    IN IF k = 0 \/ \E j \in (gt + 1)..(k - 1) : t[j] \in LineEnd
                       THEN 0
                       ELSE k + Len(close) - i

\* .replace(/<tag[^>]*>.*?<\/tag>/gi, '')
RECURSIVE RemoveBlocks(_, _, _)
RemoveBlocks(t, i, tag) ==
    IF i > Len(t) THEN <<>>
    ELSE LET n == BlockLen(t, i, tag)
         IN IF n > 0 THEN RemoveBlocks(t, i + n, tag)
            ELSE <<t[i]>> \o RemoveBlocks(t, i + 1, tag)

\* the length of the match of /<[^>]+>/ at position i, 0 for none
TagLen(t, i) ==
    IF i > Len(t) \/ t[i] # "<" THEN 0
    ELSE LET gt == FirstGt(t, i + 1)
         IN IF gt = 0 \/ gt = i + 1 THEN 0 ELSE gt - i + 1

\* .replace(/<[^>]+>/g, ' ')
RECURSIVE StripTags(_, _)
StripTags(t, i) ==
    IF i > Len(t) THEN <<>>
    ELSE LET n == TagLen(t, i)
         IN IF n > 0 THEN <<" ">> \o StripTags(t, i + n)
            ELSE <<t[i]>> \o StripTags(t, i + 1)

W_nbsp == <<"&","n","b","s","p",";">>

\* .replace(/&nbsp;/g, ' ')
RECURSIVE ReplaceNbsp(_, _)
ReplaceNbsp(t, i) ==
    IF i > Len(t) THEN <<>>
    ELSE IF IsAt(W_nbsp, t, i) THEN <<" ">> \o ReplaceNbsp(t, i + Len(W_nbsp))
         ELSE <<t[i]>> \o ReplaceNbsp(t, i + 1)

DigitChars == <<"0","1","2","3","4","5","6","7","8","9">>
DigitVal(c) == (CHOOSE d \in 1..10 : DigitChars[d] = c) - 1

RECURSIVE ToNumber(_, _)
ToNumber(ds, acc) ==
    IF ds = <<>> THEN acc ELSE ToNumber(Tail(ds), acc * 10 + DigitVal(Head(ds)))

\* String.fromCharCode, for the codes of the model's alphabet
FromCharCode(n) ==
    CASE n \in 48..57 -> DigitChars[n - 47]
      [] n \in 65..90 -> UpperChars[n - 64]
      [] n \in 97..122 -> LowerChars[n - 96]
      [] n = 32 -> " "
      [] n = 10 -> "\n"
      [] n = 45 -> "-"
      [] n = 58 -> ":"
      [] OTHER -> "?"

\* the length of the match of /&#(\d+);/ at position i, 0 for none
EntityLen(t, i) ==
    IF ~IsAt(<<"&", "#">>, t, i) THEN 0
    ELSE LET n == RunLen(Cls(Digit, FALSE, 0, Unbounded), t, i + 2, FALSE, 0)
         IN IF n > 0 /\ IsAt(<<";">>, t, i + 2 + n) THEN n + 3 ELSE 0

\* .replace(/&#(\d+);/g, (match, dec) => String.fromCharCode(dec))
RECURSIVE DecodeEntities(_, _)
DecodeEntities(t, i) ==
    IF i > Len(t) THEN <<>>
    ELSE LET n == EntityLen(t, i)
         IN IF n > 0
            THEN <<FromCharCode(ToNumber(SubSeq(t, i + 2, i + n - 2), 0))>>
                   \o DecodeEntities(t, i + n)
            ELSE <<t[i]>> \o DecodeEntities(t, i + 1)

\* .replace(/\s+/g, ' ')
RECURSIVE CollapseSpace(_, _)
CollapseSpace(t, i) ==
    IF i > Len(t) THEN <<>>
    ELSE IF t[i] \in Space
         THEN IF i > 1 /\ t[i - 1] \in Space THEN CollapseSpace(t, i + 1)
              ELSE <<" ">> \o CollapseSpace(t, i + 1)
         ELSE <<t[i]>> \o CollapseSpace(t, i + 1)

\* String.prototype.trim
RECURSIVE Trim(_)
Trim(t) ==
    IF t = <<>> THEN t
    ELSE IF Head(t) \in Space THEN Trim(Tail(t))
    ELSE IF t[Len(t)] \in Space THEN Trim(SubSeq(t, 1, Len(t) - 1))
    ELSE t

W_style == <<"s","t","y","l","e">>
W_script == <<"s","c","r","i","p","t">>

CleanHtml(html) ==
    Trim(CollapseSpace(DecodeEntities(ReplaceNbsp(StripTags(
        RemoveBlocks(RemoveBlocks(html, 1, W_style), 1, W_script), 1), 1), 1), 1))

(***************************************************************************)
(* The program's constants                                                 *)
(***************************************************************************)

\* getVerificationCode(targetEmail, maxWaitTime = 120000), in milliseconds
maxWaitTime == 120000
\* setInterval(checkMail, 2000)
TickInterval == 2000
\* if (elapsedTime > 30000) switchToNextBox()
JunkWait == 30000
\* const maxEmailAge = 2 * 60 * 1000, and 2 * 60 * 1000 of the header handler
maxEmailAge == 120000
\* .slice(0, 10)
MaxFetch == 10
\* const startTime = Date.now(): the clock counts from the start of the call
startTime == 0

(***************************************************************************)
(* The bounds of the model                                                 *)
(***************************************************************************)

\* the clock advances by Step milliseconds, up to MaxTime
Step == 30000
MaxTime == 150000
\* searches and fetches in flight at the same time
MaxInFlight == 3

(***************************************************************************)
(* The inputs: the target address and the messages of the store            *)
(***************************************************************************)

targetEmail == <<"a","m","y","@","q","q",".","c","o","m">>

INBOX == <<"I","N","B","O","X">>
\* let currentBox = null
NoBox == <<>>

\* a fresh vendor message with the code in its subject
MsgSubject ==
    [subject |-> <<"W","i","n","d","s","u","r","f"," ","c","o","d","e"," ","4","8","2","9","1","3">>,
       \* "Windsurf code 482913"
     from |-> <<"n","o","r","e","p","l","y","@","w","i","n","d","s","u","r","f",".","c","o","m">>,
       \* "noreply@windsurf.com"
     to |-> <<"a","m","y","@","q","q",".","c","o","m">>,
       \* "amy@qq.com"
     date |-> 0,
     text |-> <<>>,
       \* ""
     html |-> <<>>]
       \* ""

\* the same, older than two minutes from the start of the call
MsgOld ==
    [subject |-> <<"W","i","n","d","s","u","r","f"," ","c","o","d","e"," ","1","1","1","1","1","1">>,
       \* "Windsurf code 111111"
     from |-> <<"n","o","r","e","p","l","y","@","w","i","n","d","s","u","r","f",".","c","o","m">>,
       \* "noreply@windsurf.com"
     to |-> <<"a","m","y","@","q","q",".","c","o","m">>,
       \* "amy@qq.com"
     date |-> -150000,
     text |-> <<"Y","o","u","r"," ","v","e","r","i","f","i","c","a","t","i","o","n"," ","c","o","d","e",":"," ","1","1","1","1","1","1">>,
       \* "Your verification code: 111111"
     html |-> <<>>]
       \* ""

\* a vendor message with the code in its body only; two minutes old at 30 s
MsgBody ==
    [subject |-> <<"V","e","r","i","f","y"," ","y","o","u","r"," ","e","m","a","i","l">>,
       \* "Verify your email"
     from |-> <<"n","o","r","e","p","l","y","@","c","o","d","e","i","u","m",".","c","o","m">>,
       \* "noreply@codeium.com"
     to |-> <<"a","m","y","@","q","q",".","c","o","m">>,
       \* "amy@qq.com"
     date |-> -90000,
     text |-> <<"Y","o","u","r"," ","v","e","r","i","f","i","c","a","t","i","o","n"," ","c","o","d","e",":"," ","7","Q","3","K","9","Z">>,
       \* "Your verification code: 7Q3K9Z"
     html |-> <<>>]
       \* ""

\* a message of another sender, not a verification message
MsgOther ==
    [subject |-> <<"S","a","l","e"," ","1","2","3","4","5","6"," ","t","o","d","a","y">>,
       \* "Sale 123456 today"
     from |-> <<"s","h","o","p","@","m","a","l","l",".","c","o","m">>,
       \* "shop@mall.com"
     to |-> <<"a","m","y","@","q","q",".","c","o","m">>,
       \* "amy@qq.com"
     date |-> 0,
     text |-> <<"O","r","d","e","r"," ","1","2","3","4","5","6">>,
       \* "Order 123456"
     html |-> <<>>]
       \* ""

\* a fresh vendor message that holds no code
MsgMiss ==
    [subject |-> <<"V","e","r","i","f","y"," ","y","o","u","r"," ","e","m","a","i","l">>,
       \* "Verify your email"
     from |-> <<"h","i","@","w","i","n","d","s","u","r","f",".","c","o","m">>,
       \* "hi@windsurf.com"
     to |-> <<"a","m","y","@","q","q",".","c","o","m">>,
       \* "amy@qq.com"
     date |-> 0,
     text |-> <<"W","e","l","c","o","m","e"," ","a","m","y">>,
       \* "Welcome amy"
     html |-> <<"<","p",">","W","e","l","c","o","m","e"," ","a","m","y","<","/","p",">">>]
       \* "<p>Welcome amy</p>"

\* a fresh vendor message sent to another recipient
MsgBob ==
    [subject |-> <<"W","i","n","d","s","u","r","f"," ","c","o","d","e"," ","2","2","2","2","2","2">>,
       \* "Windsurf code 222222"
     from |-> <<"n","o","r","e","p","l","y","@","w","i","n","d","s","u","r","f",".","c","o","m">>,
       \* "noreply@windsurf.com"
     to |-> <<"b","o","b","@","q","q",".","c","o","m">>,
       \* "bob@qq.com"
     date |-> 0,
     text |-> <<>>,
       \* ""
     html |-> <<>>]
       \* ""

\* a labeled code after a bare run of six digits, and an HTML body with another
MsgLabeled ==
    [subject |-> <<"V","e","r","i","f","y"," ","y","o","u","r"," ","e","m","a","i","l">>,
       \* "Verify your email"
     from |-> <<"n","o","r","e","p","l","y","@","w","i","n","d","s","u","r","f",".","c","o","m">>,
       \* "noreply@windsurf.com"
     to |-> <<"a","m","y","@","q","q",".","c","o","m">>,
       \* "amy@qq.com"
     date |-> 0,
     text |-> <<"R","e","f"," ","1","2","3","4","5","6","."," ","V","e","r","i","f","i","c","a","t","i","o","n"," ","c","o","d","e",":"," ","A","B","C","1","2","3">>,
       \* "Ref 123456. Verification code: ABC123"
     html |-> <<"<","p",">","6","5","4","3","2","1","<","/","p",">">>]
       \* "<p>654321</p>"

\* an HTML body only: a bare run in the raw HTML, a labeled code once the tags are stripped
MsgRawHtml ==
    [subject |-> <<"V","e","r","i","f","y"," ","y","o","u","r"," ","e","m","a","i","l">>,
       \* "Verify your email"
     from |-> <<"n","o","r","e","p","l","y","@","w","i","n","d","s","u","r","f",".","c","o","m">>,
       \* "noreply@windsurf.com"
     to |-> <<"a","m","y","@","q","q",".","c","o","m">>,
       \* "amy@qq.com"
     date |-> 0,
     text |-> <<>>,
       \* ""
     html |-> <<"<","p",">","c","o","d","e",":"," ","<","b",">","A","B","1","2","C","D","<","/","b",">","<","/","p",">","<","i",">","2","4","6","8","1","0","<","/","i",">">>]
       \* "<p>code: <b>AB12CD</b></p><i>246810</i>"

\* an HTML body only, whose code shows once the tags are stripped
MsgCleanHtml ==
    [subject |-> <<"V","e","r","i","f","y"," ","y","o","u","r"," ","e","m","a","i","l">>,
       \* "Verify your email"
     from |-> <<"n","o","r","e","p","l","y","@","w","i","n","d","s","u","r","f",".","c","o","m">>,
       \* "noreply@windsurf.com"
     to |-> <<"a","m","y","@","q","q",".","c","o","m">>,
       \* "amy@qq.com"
     date |-> 0,
     text |-> <<>>,
       \* ""
     html |-> <<"<","p",">","c","o","d","e",":"," ","<","b",">","A","B","1","2","C","D","<","/","b",">","<","/","p",">">>]
       \* "<p>code: <b>AB12CD</b></p>"

\* a fresh message of an unknown sender with "verification" in its subject
MsgVerification ==
    [subject |-> <<"A","c","c","o","u","n","t"," ","v","e","r","i","f","i","c","a","t","i","o","n">>,
       \* "Account verification"
     from |-> <<"n","o","-","r","e","p","l","y","@","m","a","i","l",".","e","x","a","m","p","l","e",".","c","o","m">>,
       \* "no-reply@mail.example.com"
     to |-> <<"a","m","y","@","q","q",".","c","o","m">>,
       \* "amy@qq.com"
     date |-> 0,
     text |-> <<"Y","o","u","r"," ","v","e","r","i","f","i","c","a","t","i","o","n"," ","c","o","d","e",":"," ","5","9","2","7","1","6">>,
       \* "Your verification code: 592716"
     html |-> <<>>]
       \* ""


\* the identifiers (uids) a search can return
IDs == {1, 2}

\* the stores the session can face: the messages behind the identifiers
Scenarios ==
    << <<MsgSubject, MsgOld>>, <<MsgBody, MsgOther>>, <<MsgMiss, MsgBob>>,
       <<MsgLabeled, MsgRawHtml>>, <<MsgCleanHtml, MsgVerification>> >>

(***************************************************************************)
(* The checks of one message                                               *)
(***************************************************************************)

W_windsurf == <<"w","i","n","d","s","u","r","f">>
W_codeium == <<"c","o","d","e","i","u","m">>
W_exafunction == <<"e","x","a","f","u","n","c","t","i","o","n">>

\* const emailAge = Date.now() - new Date(date).getTime()
EmailAge(m, t) == t - m.date

\* isWindsurf of the header handler
IsWindsurfHeader(subject, from) ==
    LET subjectLower == ToLowerCase(subject)
        fromLower == ToLowerCase(from)
    IN \/ Includes(subjectLower, W_windsurf)
       \/ Includes(subjectLower, W_verify)
       \/ Includes(fromLower, W_windsurf)
       \/ Includes(fromLower, W_codeium)
       \/ Includes(fromLower, W_exafunction)

\* isWindsurfEmail of processEmail
IsWindsurfEmail(subject, from) ==
    LET subjectLower == ToLowerCase(subject)
        fromLower == ToLowerCase(from)
    IN \/ Includes(subjectLower, W_windsurf)
       \/ Includes(subjectLower, W_verify)
       \/ Includes(subjectLower, W_verification)
       \/ Includes(fromLower, W_windsurf)
       \/ Includes(fromLower, W_codeium)
       \/ Includes(fromLower, W_exafunction)

\* IsTargetHeader that lets every recipient pass
IsTargetHeader_Anyone(to) == TRUE

\* isTargetEmail of the header handler
IsTargetHeader(to) ==
    LET emailDomain == BeforeAt(targetEmail)
    IN \/ Includes(ToLowerCase(to), ToLowerCase(targetEmail))
       \/ Includes(ToLowerCase(to), ToLowerCase(emailDomain))

\* isTargetEmail of processEmail, for the plain text or the HTML body
IsTargetBody(to, content) ==
    LET contentLower == ToLowerCase(content)
        emailDomain == BeforeAt(targetEmail)
    IN \/ Includes(to, targetEmail)
       \/ Includes(contentLower, ToLowerCase(targetEmail))
       \/ Includes(contentLower, ToLowerCase(emailDomain))

\* HeaderChecks without the subject fast path
HeaderChecks_NoFastPath(m) ==
    IF ~IsWindsurfHeader(m.subject, m.from) THEN [v |-> "notWindsurf", code |-> <<>>]
    ELSE IF ~IsTargetHeader(m.to) THEN [v |-> "notTarget", code |-> <<>>]
    ELSE [v |-> "fetchBody", code |-> <<>>]

\* The header handler after its age check: "notWindsurf", "notTarget" (each
\* marks the message seen), "code" (the subject fast path) or "fetchBody".
HeaderChecks(m) ==
    IF ~IsWindsurfHeader(m.subject, m.from) THEN [v |-> "notWindsurf", code |-> <<>>]
    ELSE IF ~IsTargetHeader(m.to) THEN [v |-> "notTarget", code |-> <<>>]
    ELSE LET subjectMatch == SubjectMatch(m.subject)
         IN IF subjectMatch.ok THEN [v |-> "code", code |-> subjectMatch.cap]
            ELSE [v |-> "fetchBody", code |-> <<>>]

\* the third source of processEmail: the HTML body, raw and then cleaned
HtmlVerdict(m) ==
    IF m.html = <<>> THEN [v |-> "none", code |-> <<>>]
    ELSE IF ~IsTargetBody(m.to, m.html) THEN [v |-> "notTarget", code |-> <<>>]
    ELSE LET raw == ExtractCode(m.html)
         IN IF raw.ok THEN [v |-> "code", code |-> raw.cap]
            ELSE LET clean == ExtractCode(CleanHtml(m.html))
                 IN IF clean.ok THEN [v |-> "code", code |-> clean.cap]
                    ELSE [v |-> "none", code |-> <<>>]

\* processEmail after its guard and its age check: "notWindsurf", "notTarget",
\* "none" (no pattern matched) or "code"
EmailChecks(m) ==
    IF ~IsWindsurfEmail(m.subject, m.from) THEN [v |-> "notWindsurf", code |-> <<>>]
    ELSE LET subjectMatch == SubjectMatch(m.subject)
         IN IF subjectMatch.ok THEN [v |-> "code", code |-> subjectMatch.cap]
            ELSE IF m.text # <<>>
                 THEN IF ~IsTargetBody(m.to, m.text)
                      THEN [v |-> "notTarget", code |-> <<>>]
                      ELSE LET match == ExtractCode(m.text)
                           IN IF match.ok THEN [v |-> "code", code |-> match.cap]
                              ELSE HtmlVerdict(m)
                 ELSE HtmlVerdict(m)

\* the two, for every message of every store
HeaderTable ==
    [s \in 1..Len(Scenarios) |-> [id \in IDs |-> HeaderChecks(Scenarios[s][id])]]
EmailTable ==
    [s \in 1..Len(Scenarios) |-> [id \in IDs |-> EmailChecks(Scenarios[s][id])]]

\* HeaderVerdict without the age check
HeaderVerdict_NoAge(s, id, t) == HeaderTable[s][id]

\* What the header handler does with message id of store s at time t, the
\* session being unresolved: "old" (marks the message seen) or HeaderChecks.
HeaderVerdict(s, id, t) ==
    IF EmailAge(Scenarios[s][id], t) > maxEmailAge THEN [v |-> "old", code |-> <<>>]
    ELSE HeaderTable[s][id]

\* What processEmail does with it after its guard: "old" or EmailChecks.
EmailVerdict(s, id, t) ==
    IF EmailAge(Scenarios[s][id], t) > maxEmailAge THEN [v |-> "old", code |-> <<>>]
    ELSE EmailTable[s][id]

(***************************************************************************)
(* The folders of the store                                                *)
(***************************************************************************)

\* const junkBoxNames = [...]
junkBoxNames ==
    << <<"J","u","n","k">>,
       <<"S","p","a","m">>,
       <<"D","e","l","e","t","e","d"," ","M","e","s","s","a","g","e","s">>,
       <<"T","r","a","s","h">>,
       <<"B","u","l","k"," ","M","a","i","l">>,
       <<"[","G","m","a","i","l","]","/","S","p","a","m">>,
       <<"I","N","B","O","X",".","J","u","n","k">>,
       <<"I","N","B","O","X",".","S","p","a","m">> >>

\* what imap.getBoxes can answer: the folders, each with its children
\* "INBOX", "Sent", "Deleted Messages"
BoxesQQ ==
    << [name |-> <<"I","N","B","O","X">>, delimiter |-> <<"/">>, children |-> <<>>],
       [name |-> <<"S","e","n","t">>, delimiter |-> <<"/">>, children |-> <<>>],
       [name |-> <<"D","e","l","e","t","e","d"," ","M","e","s","s","a","g","e","s">>, delimiter |-> <<"/">>, children |-> <<>>] >>
\* "INBOX", "Sent"
BoxesPlain ==
    << [name |-> <<"I","N","B","O","X">>, delimiter |-> <<"/">>, children |-> <<>>],
       [name |-> <<"S","e","n","t">>, delimiter |-> <<"/">>, children |-> <<>>] >>

\* "INBOX", "[Gmail]" with its children "All Mail", "trash", "SPAM"
BoxesGmail ==
    << [name |-> <<"I","N","B","O","X">>, delimiter |-> <<"/">>, children |-> <<>>],
       [name |-> <<"[","G","m","a","i","l","]">>, delimiter |-> <<"/">>,
        children |-> << [name |-> <<"A","l","l"," ","M","a","i","l">>, delimiter |-> <<"/">>, children |-> <<>>],
                        [name |-> <<"t","r","a","s","h">>, delimiter |-> <<"/">>, children |-> <<>>],
                        [name |-> <<"S","P","A","M">>, delimiter |-> <<"/">>, children |-> <<>>] >>] >>

BoxAnswers == {BoxesQQ, BoxesPlain, BoxesGmail}

\* extractBoxNames of getMailboxList: the full names, parents before children
RECURSIVE extractBoxNames(_, _)
extractBoxNames(boxes, prefix) ==
    IF boxes = <<>> THEN <<>>
    ELSE LET b == Head(boxes)
             delimiter == IF b.delimiter # <<>> THEN b.delimiter ELSE <<"/">>
             fullName == IF prefix # <<>> THEN prefix \o delimiter \o b.name
                         ELSE b.name
         IN <<fullName>> \o extractBoxNames(b.children, fullName)
              \o extractBoxNames(Tail(boxes), prefix)

\* junkBoxNames.some(junk => lowerBoxName.includes(junk.toLowerCase()))
IsJunkName(boxName) ==
    \E k \in 1..Len(junkBoxNames) :
        Includes(ToLowerCase(boxName), ToLowerCase(junkBoxNames[k]))

\* FindJunkBox that keeps the last junk-like folder, not the first
RECURSIVE FindJunkBox_Last(_)
FindJunkBox_Last(allBoxes) ==
    IF allBoxes = <<>> THEN NoBox
    ELSE LET later == FindJunkBox_Last(Tail(allBoxes))
         IN IF later # NoBox THEN later
            ELSE IF IsJunkName(Head(allBoxes)) THEN Head(allBoxes)
            ELSE NoBox

\* the loop of switchToNextBox over allBoxes: the first junk-like folder, or
\* NoBox (let junkBox = null)
RECURSIVE FindJunkBox(_)
FindJunkBox(allBoxes) ==
    IF allBoxes = <<>> THEN NoBox
    ELSE IF IsJunkName(Head(allBoxes)) THEN Head(allBoxes)
    ELSE FindJunkBox(Tail(allBoxes))

\* what getMailboxList can resolve with: the folder names of each answer,
\* and [] when imap.getBoxes fails
Catalogs == {extractBoxNames(boxes, <<>>) : boxes \in BoxAnswers} \cup {<<>>}

\* junkBox, for every catalog
JunkBoxOf == [allBoxes \in Catalogs |-> FindJunkBox(allBoxes)]

(***************************************************************************)
(* The state of one call of getVerificationCode                            *)
(***************************************************************************)

VARIABLES
    scn,             \* which store the session faces (an input)
    now,             \* Date.now(), milliseconds since the start of the call
    sock,            \* the connection's socket: connecting, open, ended, closed
    imapState,       \* imap.state
    errorFired,      \* imap.once('error') has run
    endFired,        \* imap.once('end') has run
    inboxOpen,       \* imap.openBox('INBOX'): idle, pending, done, failed
    checkInterval,   \* the tick timer is armed
    nextTick,        \* when the armed timer fires next
    isResolved,
    currentBox,
    junkBoxChecked,
    processedEmails,
    outcome,         \* what the caller's promise holds
    settled,         \* the calls of resolve and reject
    endCalls,        \* the calls of imap.end()
    unread,          \* UNSEEN searches in flight
    fallback,        \* fallback searches in flight
    hdr,             \* header fetches in flight, by identifier
    body,            \* body fetches in flight, by identifier
    listing,         \* imap.getBoxes calls in flight
    closing,         \* imap.closeBox calls in flight: the junk folder of each
    opening,         \* imap.openBox(junkBox) calls in flight
    listCalls,       \* the calls of imap.getBoxes
    closeCalls,      \* the calls of imap.closeBox
    openCalls,       \* the calls of imap.openBox(junkBox)
    hops,            \* the changes of currentBox from one folder to another
    evaluated,       \* (history) the identifiers whose evaluation has ended
                     \* without resolving the session
    serverBox        \* the folder selected on the store connection

conn == <<sock, imapState, errorFired, endFired, inboxOpen>>
promise == <<isResolved, outcome, settled>>
timer == <<checkInterval, nextTick>>
searches == <<unread, fallback>>
fetches == <<hdr, body>>
switch == <<junkBoxChecked, listing, closing, opening, listCalls, closeCalls,
            openCalls, hops>>
seen == <<processedEmails, evaluated>>
store == <<scn, serverBox>>
vars == <<store, now, conn, promise, timer, searches, fetches, switch,
          currentBox, seen, endCalls>>

NoOutcome == [kind |-> "none", code |-> <<>>, id |-> 0]
CodeOutcome(code, id) == [kind |-> "code", code |-> code, id |-> id]
\* reject(new Error('获取验证码超时...'))
TimeoutError == [kind |-> "timeout", code |-> <<>>, id |-> 0]
\* reject(new Error('IMAP 连接失败...'))
ConnectionError == [kind |-> "connection", code |-> <<>>, id |-> 0]
\* reject(new Error('打开邮箱失败...'))
OpenBoxError == [kind |-> "openBox", code |-> <<>>, id |-> 0]

RECURSIVE SumOver(_, _)
SumOver(f, S) ==
    IF S = {} THEN 0
    ELSE LET x == CHOOSE y \in S : TRUE IN f[x] + SumOver(f, S \ {x})

\* the searches and fetches in flight
InFlight == unread + fallback + SumOver(hdr, IDs) + SumOver(body, IDs)

Init ==
    /\ scn \in 1..Len(Scenarios)
    /\ now = startTime
    /\ sock = "connecting"
    /\ imapState = "disconnected"
    /\ errorFired = FALSE
    /\ endFired = FALSE
    /\ inboxOpen = "idle"
    /\ checkInterval = FALSE
    /\ nextTick = 0
    /\ isResolved = FALSE
    /\ currentBox = NoBox
    /\ junkBoxChecked = FALSE
    /\ processedEmails = {}
    /\ outcome = NoOutcome
    /\ settled = 0
    /\ endCalls = 0
    /\ unread = 0
    /\ fallback = 0
    /\ hdr = [id \in IDs |-> 0]
    /\ body = [id \in IDs |-> 0]
    /\ listing = 0
    /\ closing = <<>>
    /\ opening = <<>>
    /\ listCalls = 0
    /\ closeCalls = 0
    /\ openCalls = 0
    /\ hops = 0
    /\ evaluated = {}
    /\ serverBox = NoBox

(***************************************************************************)
(* cleanup, and the guarded resolution that follows each call of it        *)
(***************************************************************************)

\* if (checkInterval) { clearInterval(checkInterval); checkInterval = null; }
ClearInterval == checkInterval' = FALSE /\ nextTick' = 0

\* if (imap.state !== 'disconnected') imap.end()
EndConnection ==
    endCalls' = IF imapState # "disconnected" THEN endCalls + 1 ELSE endCalls

cleanup == ClearInterval /\ EndConnection

\* Settle without its guard: resolve or reject whatever isResolved says
Settle_Unguarded(o) ==
    /\ isResolved' = TRUE
    /\ settled' = settled + 1
    /\ outcome' = IF settled = 0 THEN o ELSE outcome

\* if (!isResolved) { isResolved = true; resolve(...) or reject(...) }
Settle(o) ==
    IF ~isResolved
    THEN /\ isResolved' = TRUE
         /\ settled' = settled + 1
         /\ outcome' = IF settled = 0 THEN o ELSE outcome
    ELSE UNCHANGED promise

(***************************************************************************)
(* The clock and the connection                                            *)
(***************************************************************************)

\* time passes; a timer that has come due stays due
Advance ==
    /\ now + Step <= MaxTime
    /\ now' = now + Step
    /\ nextTick' = IF checkInterval /\ nextTick < now + Step THEN now + Step ELSE nextTick
    /\ UNCHANGED <<store, conn, promise, checkInterval, searches, fetches, switch,
                   currentBox, seen, endCalls>>

\* imap.connect() reaches the server
SockConnect ==
    /\ sock = "connecting"
    /\ sock' = "open"
    /\ imapState' = "connected"
    /\ UNCHANGED <<store, now, errorFired, endFired, inboxOpen, promise, timer,
                   searches, fetches, switch, currentBox, seen, endCalls>>

\* imap.once('ready'): imap.openBox('INBOX', false, ...)
OnReady ==
    /\ sock = "open"
    /\ imapState = "connected"
    /\ ~errorFired
    /\ imapState' = "authenticated"
    /\ inboxOpen' = "pending"
    /\ UNCHANGED <<store, now, sock, errorFired, endFired, promise, timer,
                   searches, fetches, switch, currentBox, seen, endCalls>>

\* OnError that only cleans up, as the 'end' handler does
OnError_NoReject ==
    /\ ~errorFired
    /\ sock \in {"connecting", "open"}
    /\ errorFired' = TRUE
    /\ sock' = IF sock = "connecting" THEN "closed" ELSE sock
    /\ cleanup
    /\ UNCHANGED <<store, now, imapState, endFired, inboxOpen, promise, searches,
                   fetches, switch, currentBox, seen>>

\* imap.once('error'): the connection fails, while connecting or later
OnError ==
    /\ ~errorFired
    /\ sock \in {"connecting", "open"}
    /\ errorFired' = TRUE
    /\ sock' = IF sock = "connecting" THEN "closed" ELSE sock
    /\ cleanup
    /\ Settle(ConnectionError)
    /\ UNCHANGED <<store, now, imapState, endFired, inboxOpen, searches, fetches,
                   switch, currentBox, seen>>

\* imap.once('end'): the connection ends, after imap.end() or on its own
OnEnd ==
    /\ ~endFired
    /\ sock = "open"
    /\ endFired' = TRUE
    /\ sock' = "ended"
    /\ cleanup
    /\ UNCHANGED <<store, now, imapState, errorFired, inboxOpen, promise, searches,
                   fetches, switch, currentBox, seen>>

\* the socket closes: imap.state becomes 'disconnected'
SockClose ==
    /\ sock = "ended" \/ (sock = "open" /\ errorFired)
    /\ sock' = "closed"
    /\ imapState' = "disconnected"
    /\ UNCHANGED <<store, now, errorFired, endFired, inboxOpen, promise, timer,
                   searches, fetches, switch, currentBox, seen, endCalls>>

(***************************************************************************)
(* checkMail                                                               *)
(***************************************************************************)

\* CheckMailBranch with >= for > in the comparison with maxWaitTime
CheckMailBranch_AtDeadline(box) ==
    CASE isResolved -> "resolved"
      [] ~isResolved /\ now - startTime >= maxWaitTime -> "timeout"
      [] ~isResolved /\ now - startTime < maxWaitTime /\ box = NoBox -> "wait"
      [] OTHER -> "search"

\* which way a call of checkMail goes, the current folder being box
CheckMailBranch(box) ==
    CASE isResolved -> "resolved"
      [] ~isResolved /\ now - startTime > maxWaitTime -> "timeout"
      [] ~isResolved /\ now - startTime <= maxWaitTime /\ box = NoBox -> "wait"
      [] OTHER -> "search"

\* checkMail but for the timer: on a timeout imap.end() and the rejection,
\* otherwise imap.search(searchCriteria, ...)
CheckMailDo(box) ==
    LET b == CheckMailBranch(box)
    IN /\ b = "search" => InFlight < MaxInFlight
       /\ IF b = "timeout"
          THEN EndConnection /\ Settle(TimeoutError)
          ELSE UNCHANGED <<endCalls, promise>>
       /\ unread' = IF b = "search" THEN unread + 1 ELSE unread

checkMail(box) ==
    /\ CheckMailDo(box)
    /\ IF CheckMailBranch(box) = "timeout" THEN ClearInterval ELSE UNCHANGED timer

\* the callback of imap.openBox('INBOX'), without an error
InboxOpened ==
    /\ inboxOpen = "pending"
    /\ sock = "open"
    /\ inboxOpen' = "done"
    /\ currentBox' = INBOX
    /\ serverBox' = INBOX
    /\ CheckMailDo(INBOX)
    /\ checkInterval' = TRUE
    /\ nextTick' = now + TickInterval
    /\ UNCHANGED <<scn, now, sock, imapState, errorFired, endFired, fallback,
                   fetches, switch, seen>>

\* the callback of imap.openBox('INBOX'), with an error
InboxOpenFailed ==
    /\ inboxOpen = "pending"
    /\ sock = "open"
    /\ inboxOpen' = "failed"
    /\ cleanup
    /\ Settle(OpenBoxError)
    /\ UNCHANGED <<store, now, sock, imapState, errorFired, endFired, searches,
                   fetches, switch, currentBox, seen>>

\* the timer fires: checkMail()
Tick ==
    /\ checkInterval
    /\ now >= nextTick
    /\ CheckMailDo(currentBox)
    /\ IF CheckMailBranch(currentBox) = "timeout" THEN ClearInterval
       ELSE checkInterval' = checkInterval /\ nextTick' = now + TickInterval
    /\ UNCHANGED <<store, now, conn, fallback, fetches, switch, currentBox,
                   seen>>

(***************************************************************************)
(* The searches, processSearchResults and the two fetches                  *)
(***************************************************************************)

\* newResults.sort((a, b) => b - a).slice(0, n): the n largest identifiers
RECURSIVE Newest(_, _)
Newest(S, n) ==
    IF S = {} \/ n = 0 THEN {}
    ELSE LET top == CHOOSE x \in S : \A y \in S : y <= x
         IN {top} \cup Newest(S \ {top}, n - 1)

\* the identifiers processSearchResults fetches the headers of
ToFetch(results) == Newest(results \ processedEmails, MaxFetch)

\* processSearchResults(results): imap.fetch(sortedResults, headers only)
processSearchResults(results) ==
    hdr' = [id \in IDs |-> IF id \in ToFetch(results) THEN hdr[id] + 1 ELSE hdr[id]]

\* switchToNextBox that does not set junkBoxChecked
switchToNextBox_NoFlag ==
    IF isResolved \/ junkBoxChecked
    THEN UNCHANGED <<junkBoxChecked, listing, listCalls>>
    ELSE /\ junkBoxChecked' = junkBoxChecked
         /\ listing' = listing + 1
         /\ listCalls' = listCalls + 1

\* switchToNextBox up to its await: imap.getBoxes(...)
switchToNextBox ==
    IF isResolved \/ junkBoxChecked
    THEN UNCHANGED <<junkBoxChecked, listing, listCalls>>
    ELSE /\ junkBoxChecked' = TRUE
         /\ listing' = listing + 1
         /\ listCalls' = listCalls + 1

\* UnreadFailed that treats the failed search as fatal
UnreadFailed_Fatal ==
    /\ unread > 0
    /\ sock = "open"
    /\ unread' = unread - 1
    /\ cleanup
    /\ Settle(ConnectionError)
    /\ UNCHANGED <<store, now, conn, fallback, fetches, switch, currentBox, seen>>

\* the callback of the UNSEEN search, with an error
UnreadFailed ==
    /\ unread > 0
    /\ sock = "open"
    /\ unread' = unread - 1
    /\ UNCHANGED <<store, now, conn, promise, timer, fallback, fetches, switch,
                   currentBox, seen, endCalls>>

\* the callback of the UNSEEN search, with results
UnreadDone(results) ==
    /\ unread > 0
    /\ sock = "open"
    /\ InFlight - 1 + Cardinality(ToFetch(results)) <= MaxInFlight
    /\ unread' = unread - 1
    /\ IF results = {}
       THEN fallback' = fallback + 1 /\ UNCHANGED hdr
       ELSE processSearchResults(results) /\ UNCHANGED fallback
    /\ UNCHANGED <<store, now, conn, promise, timer, body, switch, currentBox,
                   seen, endCalls>>

\* FallbackDone without the test of the 30 seconds
FallbackDone_NoWait(failed, results) ==
    /\ fallback > 0
    /\ sock = "open"
    /\ ~failed => InFlight - 1 + Cardinality(ToFetch(results)) <= MaxInFlight
    /\ fallback' = fallback - 1
    /\ IF failed \/ results = {}
       THEN /\ IF currentBox = INBOX /\ ~junkBoxChecked
               THEN switchToNextBox
               ELSE UNCHANGED <<junkBoxChecked, listing, listCalls>>
            /\ UNCHANGED hdr
       ELSE /\ processSearchResults(results)
            /\ UNCHANGED <<junkBoxChecked, listing, listCalls>>
    /\ UNCHANGED <<store, now, conn, promise, timer, unread, body, closing, opening,
                   closeCalls, openCalls, hops, currentBox, seen,
                   endCalls>>

\* the callback of the fallback search: an error (failed) or results
FallbackDone(failed, results) ==
    /\ fallback > 0
    /\ sock = "open"
    /\ ~failed => InFlight - 1 + Cardinality(ToFetch(results)) <= MaxInFlight
    /\ fallback' = fallback - 1
    /\ IF failed \/ results = {}
       THEN /\ IF currentBox = INBOX /\ ~junkBoxChecked
                  /\ now - startTime > JunkWait
               THEN switchToNextBox
               ELSE UNCHANGED <<junkBoxChecked, listing, listCalls>>
            /\ UNCHANGED hdr
       ELSE /\ processSearchResults(results)
            /\ UNCHANGED <<junkBoxChecked, listing, listCalls>>
    /\ UNCHANGED <<store, now, conn, promise, timer, unread, body, closing, opening,
                   closeCalls, openCalls, hops, currentBox, seen,
                   endCalls>>

\* a header fetch that yields nothing: a fetch error, a parse error, no uid
HeaderFailed(id) ==
    /\ hdr[id] > 0
    /\ hdr' = [hdr EXCEPT ![id] = @ - 1]
    /\ UNCHANGED <<store, now, conn, promise, timer, searches, body, switch,
                   currentBox, seen, endCalls>>

\* the 'body' handler of the header fetch, the header parsed
HeaderDone(id) ==
    /\ hdr[id] > 0
    /\ hdr' = [hdr EXCEPT ![id] = @ - 1]
    /\ IF isResolved
       THEN UNCHANGED <<promise, timer, body, seen, endCalls>>
       ELSE LET h == HeaderVerdict(scn, id, now)
            IN CASE h.v \in {"old", "notWindsurf", "notTarget"} ->
                      /\ processedEmails' = processedEmails \cup {id}
                      /\ evaluated' = evaluated \cup {id}
                      /\ UNCHANGED <<promise, timer, body, endCalls>>
                 [] h.v = "code" ->
                      /\ processedEmails' = processedEmails \cup {id}
                      /\ cleanup
                      /\ Settle(CodeOutcome(h.code, id))
                      /\ UNCHANGED <<body, evaluated>>
                 [] h.v = "fetchBody" ->
                      /\ body' = [body EXCEPT ![id] = @ + 1]
                      /\ UNCHANGED <<promise, timer, seen, endCalls>>
    /\ UNCHANGED <<store, now, conn, searches, switch, currentBox>>

\* processEmail(parsed, emailId)
processEmail(id) ==
    IF isResolved \/ id \in processedEmails
    THEN UNCHANGED <<promise, timer, seen, endCalls>>
    ELSE /\ processedEmails' = processedEmails \cup {id}
         /\ LET e == EmailVerdict(scn, id, now)
            IN IF e.v = "code"
               THEN cleanup /\ Settle(CodeOutcome(e.code, id)) /\ UNCHANGED evaluated
               ELSE /\ evaluated' = evaluated \cup {id}
                    /\ UNCHANGED <<promise, timer, endCalls>>

\* the 'body' handler of the full fetch, the message parsed
BodyDone(id) ==
    /\ body[id] > 0
    /\ body' = [body EXCEPT ![id] = @ - 1]
    /\ processEmail(id)
    /\ UNCHANGED <<store, now, conn, searches, hdr, switch, currentBox>>

\* the full fetch yields nothing: a parse error
BodyParseFailed(id) ==
    /\ body[id] > 0
    /\ body' = [body EXCEPT ![id] = @ - 1]
    /\ UNCHANGED <<store, now, conn, promise, timer, searches, hdr, switch,
                   currentBox, seen, endCalls>>

\* fullFetch.once('error'): processedEmails.add(emailId)
BodyFetchError(id) ==
    /\ body[id] > 0
    /\ body' = [body EXCEPT ![id] = @ - 1]
    /\ processedEmails' = processedEmails \cup {id}
    /\ UNCHANGED <<store, now, conn, promise, timer, searches, hdr, switch,
                   currentBox, evaluated, endCalls>>

(***************************************************************************)
(* switchToNextBox after its await                                         *)
(***************************************************************************)

\* ListDone without the return for a catalog that holds no junk folder
ListDone_NoReturn(allBoxes) ==
    /\ listing > 0
    /\ sock = "open"
    /\ listing' = listing - 1
    /\ closing' = Append(closing, JunkBoxOf[allBoxes])
    /\ closeCalls' = closeCalls + 1
    /\ UNCHANGED <<store, now, conn, promise, timer, searches, fetches,
                   junkBoxChecked, opening, listCalls, openCalls, hops,
                   currentBox, seen, endCalls>>

\* getMailboxList resolves: [] on an error, the folder names otherwise
ListDone(allBoxes) ==
    /\ listing > 0
    /\ sock = "open"
    /\ listing' = listing - 1
    /\ LET junkBox == JunkBoxOf[allBoxes]
       IN IF junkBox = NoBox
          THEN UNCHANGED <<closing, closeCalls>>
          ELSE /\ closing' = Append(closing, junkBox)
               /\ closeCalls' = closeCalls + 1
    /\ UNCHANGED <<store, now, conn, promise, timer, searches, fetches,
                   junkBoxChecked, opening, listCalls, openCalls, hops,
                   currentBox, seen, endCalls>>

\* the callback of imap.closeBox, without an error (the store has no folder
\* selected any more) or with one (it keeps its folder):
\* imap.openBox(junkBox, false, ...)
CloseDone ==
    /\ closing # <<>>
    /\ sock = "open"
    /\ closing' = Tail(closing)
    /\ opening' = Append(opening, Head(closing))
    /\ openCalls' = openCalls + 1
    /\ serverBox' \in {NoBox, serverBox}
    /\ UNCHANGED <<scn, now, conn, promise, timer, searches, fetches,
                   junkBoxChecked, listing, listCalls, closeCalls, hops,
                   currentBox, seen, endCalls>>

\* the callback of imap.openBox(junkBox), with an error: the store has no
\* folder selected
JunkOpenFailed ==
    /\ opening # <<>>
    /\ sock = "open"
    /\ opening' = Tail(opening)
    /\ serverBox' = NoBox
    /\ UNCHANGED <<scn, now, conn, promise, timer, searches, fetches,
                   junkBoxChecked, listing, closing, listCalls, closeCalls,
                   openCalls, hops, currentBox, seen, endCalls>>

\* the callback of imap.openBox(junkBox), without an error
JunkOpened ==
    /\ opening # <<>>
    /\ sock = "open"
    /\ opening' = Tail(opening)
    /\ currentBox' = Head(opening)
    /\ serverBox' = Head(opening)
    /\ hops' = IF currentBox # NoBox /\ currentBox # Head(opening) THEN hops + 1 ELSE hops
    /\ checkMail(Head(opening))
    /\ UNCHANGED <<scn, now, conn, fallback, fetches, junkBoxChecked, listing,
                   closing, listCalls, closeCalls, openCalls, seen>>

Next ==
    \/ Advance
    \/ SockConnect
    \/ OnReady
    \/ OnError
    \/ OnEnd
    \/ SockClose
    \/ InboxOpened
    \/ InboxOpenFailed
    \/ Tick
    \/ UnreadFailed
    \/ \E results \in SUBSET IDs : UnreadDone(results)
    \/ \E failed \in BOOLEAN, results \in SUBSET IDs : FallbackDone(failed, results)
    \/ \E id \in IDs : HeaderFailed(id)
    \/ \E id \in IDs : HeaderDone(id)
    \/ \E id \in IDs : BodyDone(id)
    \/ \E id \in IDs : BodyParseFailed(id)
    \/ \E id \in IDs : BodyFetchError(id)
    \/ \E allBoxes \in Catalogs : ListDone(allBoxes)
    \/ CloseDone
    \/ JunkOpenFailed
    \/ JunkOpened

Spec == Init /\ [][Next]_vars

(***************************************************************************)
(* Fairness: the clock advances, an armed timer fires, and every operation *)
(* in flight on an open connection completes.  The failures of the         *)
(* connection (OnError, OnEnd) may or may not happen.                      *)
(***************************************************************************)

Completes ==
    \/ UnreadFailed
    \/ \E results \in SUBSET IDs : UnreadDone(results)
    \/ \E failed \in BOOLEAN, results \in SUBSET IDs : FallbackDone(failed, results)
    \/ \E id \in IDs : HeaderFailed(id) \/ HeaderDone(id)
    \/ \E id \in IDs : BodyDone(id) \/ BodyParseFailed(id) \/ BodyFetchError(id)
    \/ \E allBoxes \in Catalogs : ListDone(allBoxes)
    \/ CloseDone
    \/ JunkOpenFailed
    \/ JunkOpened

Fairness ==
    /\ WF_vars(Advance)
    /\ WF_vars(SockConnect)
    /\ WF_vars(OnReady)
    /\ WF_vars(InboxOpened \/ InboxOpenFailed)
    /\ WF_vars(Tick)
    /\ WF_vars(Completes)
    /\ WF_vars(SockClose)

FairSpec == Spec /\ Fairness

(***************************************************************************)
(* The claims                                                              *)
(***************************************************************************)

\* C1: the caller's promise is settled at most once: resolve or reject is
\* called at most once in a session, and once the session has resolved no
\* later event (tick, completion, 'error', 'end') changes the outcome, the
\* resolved flag or the number of settlements.
C1_SettledOnce ==
    [][/\ settled' <= 1
       /\ isResolved => (isResolved' /\ outcome' = outcome /\ settled' = settled)]_vars

\* a code was returned and then the connection's 'error' event arrived
C1_Witness == outcome.kind = "code" /\ errorFired /\ endFired /\ settled = 1

\* C2: every call eventually delivers an outcome to the caller, whichever
\* way the session ends, also when the connection ends on its own.
C2_EventuallySettled == <>(outcome.kind # "none")

\* C3: imap.end() is called exactly once per session: never twice, and at
\* least once when the session ended with a code, a timeout or a failure to
\* open INBOX.
C3_TeardownOnce ==
    /\ endCalls <= 1
    /\ outcome.kind \in {"code", "timeout", "openBox"} => endCalls >= 1

\* C4: after the session has resolved and torn down, a late completion issues
\* no further store operation (search, fetch, closeBox, openBox) and changes
\* neither the current folder, the Seen-Set nor the switch flag.
C4_LateCompletionsNoOps ==
    [][(isResolved /\ endCalls > 0) =>
          /\ unread' <= unread
          /\ fallback' <= fallback
          /\ \A id \in IDs : hdr'[id] <= hdr[id] /\ body'[id] <= body[id]
          /\ listCalls' = listCalls
          /\ closeCalls' = closeCalls
          /\ openCalls' = openCalls
          /\ currentBox' = currentBox
          /\ processedEmails' = processedEmails
          /\ junkBoxChecked' = junkBoxChecked]_vars

\* C5: a tick of an unresolved session at which the elapsed time exceeds
\* maxWaitTime ends the session with the timeout error, stops the timer and
\* issues no search; and the timeout error is reported only at a moment
\* when the elapsed time exceeds maxWaitTime.
C5_TimeoutAtDeadline ==
    [][/\ (Tick /\ ~isResolved /\ now - startTime > maxWaitTime) =>
             /\ isResolved'
             /\ outcome'.kind = "timeout"
             /\ ~checkInterval'
             /\ unread' = unread /\ fallback' = fallback
       /\ (outcome.kind # "timeout" /\ outcome'.kind = "timeout") =>
             now - startTime > maxWaitTime]_vars

\* the session timed out, at the first clock value past the deadline
C5_Witness == outcome.kind = "timeout" /\ now - startTime > maxWaitTime

\* C6: when the connection fails before it is ready, or opening INBOX fails,
\* the call has failed with a connection error (never a timeout or a code),
\* no timer is armed, no folder is current, no search or fetch is in flight,
\* and the connection is torn down (imap.end() called, or never connected).
C6_ConnectionFailure ==
    ((errorFired /\ inboxOpen = "idle") \/ inboxOpen = "failed") =>
        /\ outcome.kind \in {"connection", "openBox"}
        /\ ~checkInterval
        /\ currentBox = NoBox
        /\ InFlight = 0
        /\ endCalls >= 1 \/ imapState = "disconnected"

\* opening INBOX failed and the call was rejected for it
C6_Witness == inboxOpen = "failed" /\ outcome.kind = "openBox" /\ endCalls = 1

\* a poll cycle ends in this step with nothing new to evaluate: the UNSEEN
\* search returned identifiers that are all in the Seen-Set, or the fallback
\* search failed, returned nothing or returned only such identifiers
C7_CycleEndsEmpty ==
    \/ \E results \in SUBSET IDs :
          /\ results # {}
          /\ results \subseteq processedEmails
          /\ UnreadDone(results)
    \/ \E failed \in BOOLEAN, results \in SUBSET IDs :
          /\ results \subseteq processedEmails
          /\ FallbackDone(failed, results)

\* C7: once INBOX has been polled for more than 30 seconds without a
\* resolution and no switch was attempted, the next poll cycle that completes
\* triggers the Mailbox Switcher, whatever its search returned.
C7_SwitchAfterWait ==
    [][(/\ currentBox = INBOX
        /\ ~isResolved
        /\ ~junkBoxChecked
        /\ now - startTime > JunkWait
        /\ C7_CycleEndsEmpty) => junkBoxChecked']_vars

\* C8: the Mailbox Switcher runs at most once in a session: at most one
\* folder listing, one closeBox, one openBox of a junk folder and one change
\* of the current folder.
C8_SwitchOnce ==
    /\ listCalls <= 1
    /\ closeCalls <= 1
    /\ openCalls <= 1
    /\ hops <= 1

\* the session switched to the junk folder and a later poll cycle there came
\* back empty
C8_Witness == hops = 1 /\ currentBox # INBOX /\ fallback > 0 /\ ~isResolved

\* C9: once an identifier is in the Seen-Set, no header fetch and no body
\* fetch is issued for it any more.
C9_SeenNeverFetched ==
    [][\A id \in processedEmails :
          hdr'[id] <= hdr[id] /\ body'[id] <= body[id]]_vars

\* C10: a code is returned only from a message that is at most two minutes
\* old at that moment; and a header or a body evaluated for an unresolved
\* session when its message is older leaves the message in the Seen-Set and
\* the session unresolved.
C10_NoOldMessage ==
    [][/\ (outcome.kind = "none" /\ outcome'.kind = "code") =>
             EmailAge(Scenarios[scn][outcome'.id], now) <= maxEmailAge
       /\ \A id \in IDs :
             (/\ ~isResolved
              /\ EmailAge(Scenarios[scn][id], now) > maxEmailAge
              /\ HeaderDone(id) \/ BodyDone(id)) =>
                 (id \in processedEmails' /\ ~isResolved')]_vars

\* the old message of the first store, its subject holding a code, was
\* discarded at the header stage and the session goes on unresolved
C10_Witness ==
    /\ scn = 1
    /\ 2 \in processedEmails
    /\ EmailAge(Scenarios[scn][2], now) > maxEmailAge
    /\ body[2] = 0
    /\ ~isResolved

\* the messages of each store whose recipient field contains neither the
\* target address nor its local part, in whatever case
C11_Strangers ==
    [s \in 1..Len(Scenarios) |->
        {id \in IDs :
            LET to == ToLowerCase(Scenarios[s][id].to)
            IN /\ ~Includes(to, ToLowerCase(targetEmail))
               /\ ~Includes(to, ToLowerCase(BeforeAt(targetEmail)))}]

\* C11: no code is returned from a message whose recipient field contains
\* neither the target address nor its local part; when the header of such a
\* message is evaluated for an unresolved session the message is added to
\* the Seen-Set, the session stays unresolved and no body fetch is issued;
\* and no body fetch is ever in flight for such a message.
C11_RecipientGate ==
    [][/\ (outcome.kind = "none" /\ outcome'.kind = "code") =>
             outcome'.id \notin C11_Strangers[scn]
       /\ \A id \in C11_Strangers[scn] :
             /\ body'[id] = 0
             /\ (~isResolved /\ HeaderDone(id)) =>
                    (id \in processedEmails' /\ ~isResolved')]_vars

\* the fresh vendor message for another recipient, a code in its subject,
\* was marked seen at the header stage and the session goes on unresolved
C11_Witness ==
    /\ scn = 3
    /\ 2 \in C11_Strangers[scn]
    /\ 2 \in processedEmails
    /\ hdr[2] = 0
    /\ ~isResolved
    /\ checkInterval

\* the folder the claim expects of a catalog: the first, in catalog order,
\* whose name contains an alias in whatever case; NoBox when there is none
C12_Expected ==
    [names \in Catalogs |->
        LET junk == {i \in 1..Len(names) :
                        \E k \in 1..Len(junkBoxNames) :
                            Includes(ToLowerCase(names[i]), ToLowerCase(junkBoxNames[k]))}
        IN IF junk = {} THEN NoBox
           ELSE names[CHOOSE i \in junk : \A j \in junk : i <= j]]

C12_DeletedMessages == <<"D","e","l","e","t","e","d"," ","M","e","s","s","a","g","e","s">>

\* C12: when the folder listing completes, the Mailbox Switcher closes the
\* current folder for the first folder in catalog order whose name contains
\* a junk alias, case-insensitively, and for no other; it selects nothing
\* when no name contains an alias; for "INBOX", "Sent", "Deleted Messages"
\* it selects "Deleted Messages"; and the folder it finally opens is never
\* "INBOX" or "Sent".
C12_FirstJunkFolder ==
    [][/\ \A names \in Catalogs :
             ListDone(names) =>
                 /\ closing' = IF C12_Expected[names] = NoBox THEN closing
                                ELSE Append(closing, C12_Expected[names])
                 /\ names = extractBoxNames(BoxesQQ, <<>>) =>
                        closing' = Append(closing, C12_DeletedMessages)
       /\ \A i \in 1..Len(closing') :
             closing'[i] \notin {INBOX, <<"S","e","n","t">>}]_vars

\* the catalog "INBOX", "[Gmail]", "[Gmail]/All Mail", "[Gmail]/trash",
\* "[Gmail]/SPAM" was listed and the session now polls "[Gmail]/trash", the
\* first of its two junk-like folders
C12_Witness ==
    /\ currentBox = <<"[","G","m","a","i","l","]","/","t","r","a","s","h">>
    /\ hops = 1
    /\ listing = 0
    /\ unread > 0

\* the patterns that match each of the three text sources of a message:
\* the plain text, the raw HTML, the HTML with its tags stripped
C13_Matching ==
    [s \in 1..Len(Scenarios) |-> [id \in IDs |->
        LET m == Scenarios[s][id]
            hits(t) == {k \in 1..Len(patterns) :
                           Match(t, patterns[k][1], patterns[k][2]).ok}
        IN <<IF m.text = <<>> THEN {} ELSE hits(m.text),
             IF m.html = <<>> THEN {} ELSE hits(m.html),
             IF m.html = <<>> THEN {} ELSE hits(CleanHtml(m.html))>>]]

\* the code the claim expects of each message at the body stage: of the
\* first source, in the order plain text, raw HTML, stripped HTML, that some
\* pattern matches, the capture of the first pattern in order that matches
C13_Expected ==
    [s \in 1..Len(Scenarios) |-> [id \in IDs |->
        LET m == Scenarios[s][id]
            srcs == <<m.text, m.html, CleanHtml(m.html)>>
            hit == {n \in 1..3 : C13_Matching[s][id][n] # {}}
        IN IF hit = {} THEN <<>>
           ELSE LET n == CHOOSE x \in hit : \A y \in hit : x <= y
                    k == CHOOSE x \in C13_Matching[s][id][n] :
                             \A y \in C13_Matching[s][id][n] : x <= y
                IN Match(srcs[n], patterns[k][1], patterns[k][2]).cap]]

\* C13: a code found at the body stage is the capture of the first pattern,
\* in the cascade's order, that matches the first text source, in the order
\* plain text, raw HTML, stripped HTML, that any pattern matches.  For the
\* text "Ref 123456. Verification code: ABC123" it is "ABC123", never the
\* bare run; for the HTML "<p>code: <b>AB12CD</b></p><i>246810</i>" it is
\* the raw HTML's "246810"; for "<p>code: <b>AB12CD</b></p>", whose raw form
\* no pattern matches, it is the stripped form's "AB12CD".
C13_CascadeOrder ==
    [][\A id \in IDs :
          (outcome.kind = "none" /\ outcome'.kind = "code" /\ outcome'.id = id
             /\ BodyDone(id)) =>
              /\ outcome'.code = C13_Expected[scn][id]
              /\ Scenarios[scn][id] = MsgLabeled =>
                     outcome'.code = <<"A","B","C","1","2","3">>
              /\ Scenarios[scn][id] = MsgRawHtml =>
                     outcome'.code = <<"2","4","6","8","1","0">>
              /\ Scenarios[scn][id] = MsgCleanHtml =>
                     outcome'.code = <<"A","B","1","2","C","D">>]_vars

\* the message with a bare run before its labeled code gave the labeled code
C13_Witness ==
    /\ outcome.kind = "code"
    /\ Scenarios[scn][outcome.id] = MsgLabeled
    /\ outcome.code = <<"A","B","C","1","2","3">>

\* C14: once the session has resolved (with a code, the timeout error or
\* another error) no tick timer is armed, whatever the order of the events.
C14_TimerStopped == isResolved => ~checkInterval

\* C15: a folder switch is attempted (the switch flag is set, the folder
\* listing is requested) only in a step that starts with the session
\* unresolved, "INBOX" the current folder, more than 30 seconds elapsed and
\* no switch attempted before: never at or before 30 seconds, never from
\* the junk folder.
C15_SwitchDecision ==
    [][(listCalls' # listCalls \/ junkBoxChecked' # junkBoxChecked) =>
          /\ ~isResolved
          /\ currentBox = INBOX
          /\ now - startTime > JunkWait
          /\ ~junkBoxChecked
          /\ listCalls = 0
          /\ junkBoxChecked' /\ listCalls' = 1]_vars

\* the switch has just been attempted, at the first clock value past 30
\* seconds, and its folder listing is in flight
C15_Witness ==
    /\ junkBoxChecked
    /\ listing = 1
    /\ currentBox = INBOX
    /\ now - startTime = JunkWait + Step
    /\ ~isResolved

\* the catalogs none of whose names contains a junk alias, the empty catalog
\* of a failed listing among them
C16_JunkLess ==
    {names \in Catalogs :
        \A i \in 1..Len(names), k \in 1..Len(junkBoxNames) :
            ~Includes(ToLowerCase(names[i]), ToLowerCase(junkBoxNames[k]))}

\* C16: when the folder listing completes with a catalog that holds no
\* junk-like folder, or with the empty catalog of a failed listing, the step
\* issues no closeBox and no openBox and leaves the current folder, the tick
\* timer and the caller's promise as they are; from then on no closeBox and
\* no openBox is ever issued, the current folder stays "INBOX", and every
\* tick of the unresolved session up to the deadline issues a search.
C16_NoJunkNoChange ==
    [][/\ \A names \in C16_JunkLess :
             ListDone(names) =>
                 /\ closeCalls' = closeCalls /\ openCalls' = openCalls
                 /\ closing' = closing /\ opening' = opening
                 /\ currentBox' = currentBox
                 /\ checkInterval' = checkInterval /\ nextTick' = nextTick
                 /\ isResolved' = isResolved /\ outcome' = outcome
                 /\ endCalls' = endCalls
       /\ (listCalls = 1 /\ listing = 0 /\ closeCalls = 0) =>
             /\ currentBox = INBOX /\ currentBox' = INBOX
             /\ openCalls' = 0 /\ closeCalls' = 0 /\ hops' = 0
             /\ (Tick /\ ~isResolved /\ now - startTime <= maxWaitTime) =>
                    unread' = unread + 1]_vars

\* the listing came back without a junk folder and, a clock step later, the
\* unresolved session is still polling "INBOX" on its timer
C16_Witness ==
    /\ listCalls = 1 /\ listing = 0 /\ closeCalls = 0
    /\ currentBox = INBOX
    /\ checkInterval
    /\ ~isResolved
    /\ unread > 0
    /\ now - startTime > JunkWait + Step

\* C17: when the evaluation of a message ends without resolving the session,
\* at the header stage (no body fetch follows) or at the body stage, its
\* identifier is in the Seen-Set afterwards; and for an identifier whose
\* evaluation has so ended no header fetch and no body fetch is issued any
\* more.
C17_EvaluatedNotRefetched ==
    [][/\ \A id \in IDs :
             (/\ ~isResolved /\ ~isResolved'
              /\ (HeaderDone(id) /\ body'[id] = body[id]) \/ BodyDone(id)) =>
                 id \in processedEmails'
       /\ \A id \in evaluated :
             hdr'[id] <= hdr[id] /\ body'[id] <= body[id]]_vars

\* what the claim reads in the headers of each message: a vendor identifier
\* in subject or sender or "verify" in the subject, the target address or
\* its local part in the recipient field, six digits set off in the subject
C18_Headers ==
    [s \in 1..Len(Scenarios) |-> [id \in IDs |->
        LET m == Scenarios[s][id]
            subject == ToLowerCase(m.subject)
            from == ToLowerCase(m.from)
            to == ToLowerCase(m.to)
        IN [provenance |->
                \/ Includes(subject, W_windsurf) \/ Includes(subject, W_verify)
                \/ \E w \in {W_windsurf, W_codeium, W_exafunction} : Includes(from, w),
            recipient |->
                \/ Includes(to, ToLowerCase(targetEmail))
                \/ Includes(to, ToLowerCase(BeforeAt(targetEmail))),
            subjectCode |-> Match(m.subject, SubjectPattern, FALSE).ok]]]

\* C18: a body fetch is issued for an identifier only by the completion of
\* its header fetch, for an unresolved session, when the message is at most
\* two minutes old, passes the provenance and the recipient check and has
\* no code in its subject; when the subject fast path finds a code the
\* session resolves in that step with that message's code; and no body fetch
\* is ever in flight for a message whose subject holds a code.
C18_BodyAfterHeader ==
    [][\A id \in IDs :
          LET h == C18_Headers[scn][id]
              fresh == EmailAge(Scenarios[scn][id], now) <= maxEmailAge
          IN /\ body'[id] > body[id] =>
                   /\ HeaderDone(id) /\ hdr[id] > 0
                   /\ ~isResolved /\ ~isResolved'
                   /\ fresh /\ h.provenance /\ h.recipient /\ ~h.subjectCode
             /\ (/\ HeaderDone(id) /\ ~isResolved
                 /\ fresh /\ h.provenance /\ h.recipient /\ h.subjectCode) =>
                   /\ isResolved'
                   /\ outcome'.kind = "code" /\ outcome'.id = id
                   /\ body'[id] = 0
             /\ h.subjectCode => body[id] = 0 /\ body'[id] = 0]_vars

\* the code in the subject of the fresh vendor message was returned; no body
\* fetch is in flight
C18_Witness ==
    /\ outcome.kind = "code"
    /\ Scenarios[scn][outcome.id] = MsgSubject
    /\ C18_Headers[scn][outcome.id].subjectCode
    /\ body = [id \in IDs |-> 0]

\* a search, a header fetch or a body fetch fails in this step
C19_Failure ==
    \/ UnreadFailed
    \/ \E results \in SUBSET IDs : FallbackDone(TRUE, results)
    \/ \E id \in IDs : HeaderFailed(id) \/ BodyParseFailed(id) \/ BodyFetchError(id)

\* C19: a failed search, header fetch or body fetch does not settle the
\* caller's promise, does not call imap.end() and leaves the tick timer as
\* it is; the next tick of the unresolved session polls again up to the
\* deadline; and the promise is never settled by a failure, so that with
\* nothing but failures the only outcome is the timeout error of a tick
\* past the deadline.
C19_FailuresNotFatal ==
    [][/\ C19_Failure =>
             /\ isResolved' = isResolved /\ outcome' = outcome
             /\ settled' = settled
             /\ endCalls' = endCalls
             /\ checkInterval' = checkInterval /\ nextTick' = nextTick
       /\ (Tick /\ ~isResolved /\ currentBox # NoBox) =>
             IF now - startTime > maxWaitTime
             THEN outcome'.kind = "timeout"
             ELSE unread' = unread + 1 /\ ~isResolved' /\ checkInterval']_vars

\* the body fetch of the message that holds the code failed; the session is
\* unresolved and polls on
C19_Witness ==
    /\ scn = 2
    /\ now - startTime <= Step
    /\ 1 \in processedEmails
    /\ body[1] = 0
    /\ ~isResolved
    /\ checkInterval
    /\ unread > 0

\* the messages the claim's rules hold in scope: subject or sender contains
\* a vendor identifier, or the subject contains "verify" or "verification",
\* in whatever case; and the recipient field names the target
C20_InScope ==
    [s \in 1..Len(Scenarios) |->
        {id \in IDs :
            LET m == Scenarios[s][id]
                subject == ToLowerCase(m.subject)
                from == ToLowerCase(m.from)
                to == ToLowerCase(m.to)
            IN /\ \/ \E w \in {W_windsurf, W_codeium, W_exafunction} :
                        Includes(subject, w) \/ Includes(from, w)
                  \/ Includes(subject, W_verify)
                  \/ Includes(subject, W_verification)
               /\ \/ Includes(to, ToLowerCase(targetEmail))
                  \/ Includes(to, ToLowerCase(BeforeAt(targetEmail)))}]

\* C20: the header stage and the body stage apply one provenance rule, which
\* accepts a vendor identifier in subject or sender and "verify" or
\* "verification" in the subject: a fresh message for the target whose header
\* is evaluated for an unresolved session either gives its code from the
\* subject or has its body fetched exactly when that rule accepts it, and
\* is marked seen without a fetch otherwise.
C20_OneProvenanceRule ==
    [][\A id \in IDs :
          (/\ HeaderDone(id)
           /\ ~isResolved
           /\ EmailAge(Scenarios[scn][id], now) <= maxEmailAge) =>
              IF id \in C20_InScope[scn]
              THEN isResolved' \/ body'[id] = body[id] + 1
              ELSE id \in processedEmails' /\ body'[id] = body[id] /\ ~isResolved']_vars

\* C21: whenever the session issues a search (the UNSEEN search or the
\* fallback search), a folder is selected on the store connection, it is
\* the folder the session records as current, and no folder switch is under
\* way (no closeBox and no openBox of the junk folder is in flight); and
\* once a switch is over, an unresolved session that polls on its timer
\* has the folder it records as current selected on the connection.
C21_SearchInCurrentFolder ==
    [][/\ (unread' > unread \/ fallback' > fallback) =>
             /\ serverBox' # NoBox
             /\ serverBox' = currentBox'
             /\ closing' = <<>>
             /\ opening' = <<>>
       /\ (/\ ~isResolved /\ checkInterval /\ sock = "open"
           /\ closing = <<>> /\ opening = <<>>
           /\ currentBox # NoBox) => serverBox = currentBox]_vars

=============================================================================
